---------------------------- MODULE Spec2Model ----------------------------
(***************************************************************************)
(* FireMAP: canopy rasters from a classified LiDAR point cloud.            *)
(*                                                                         *)
(* processing.py: create_canopy_height_model (CHM) and create_canopy_cover *)
(* are modelled statement group by statement group; app.py: the Run button *)
(* handler.                                                                *)
(*                                                                         *)
(* Numbers.  Coordinates, elevations and the resolution are float64 in the *)
(* code; the model draws them from the integers (in metres), on which      *)
(* float64 arithmetic is exact below 2^53.  The float32 rasters (dsm,      *)
(* canopy_cover) round what is stored into them: ToFloat32 is that         *)
(* rounding on the integers (24-bit significand, ties to even).  NaN is    *)
(* one reserved value, and the arithmetic and the comparisons on raster    *)
(* values go through FSub / FLt so that NaN behaves as IEEE NaN does.      *)
(* Quotients (linear interpolation, the cover percentage) are kept as      *)
(* exact fractions [num, den].                                             *)
(***************************************************************************)
EXTENDS Integers, Sequences, FiniteSets, TLC

VARIABLES
    pc,                 \* position in the running function
    las,                \* the points read from las_path: sequence of [x, y, z, classification]
    resolution,         \* parameter
    height_threshold,   \* parameter (canopy cover only)
    ground_points,      \* las.points[las.classification == 2]
    non_ground_points,  \* las.points[las.classification != 2]
    grid,               \* [grid_x_min, grid_y_min, x_coords, y_coords, rows, cols]
    dtm, dsm, chm,      \* rasters of create_canopy_height_model
    normalized_z,       \* per-point normalized height (canopy cover)
    total_returns, above_threshold_returns, canopy_cover,
    transform,          \* from_origin(...) handed to rasterio
    raster,             \* what was written to output_raster_path ("none" before)
    err,                \* the exception that ended the function ("none" if none)
    app                 \* state of the Streamlit script (app.py)

vars == <<pc, las, resolution, height_threshold, ground_points, non_ground_points,
          grid, dtm, dsm, chm, normalized_z, total_returns, above_threshold_returns,
          canopy_cover, transform, raster, err, app>>

----------------------------------------------------------------------------
(* Bounds of the model *)

\* longest point cloud of the geometry family (any position, flat terrain)
MaxGeomPts == 2
\* longest point cloud of the tally family (canopy cover)
MaxTallyPts == 3
\* most non-ground points above a ground triangle (CHM surface family)
MaxNonGround == 2
\* most presses of Run in the app
MaxRuns == 2

----------------------------------------------------------------------------
(* Numbers *)

\* the no-data value, -9999.0
NoData == -9999
\* np.nan: a reserved value no elevation takes
NaN == -2000000000
\* significand bits of np.float32
Float32Bits == 24
\* classification code of ground points
GroundClass == 2

IsNaN(v) == v = NaN

Abs(v) == IF v < 0 THEN -v ELSE v

RECURSIVE Pow2(_)
Pow2(n) == IF n = 0 THEN 1 ELSE 2 * Pow2(n - 1)

\* np.floor(a / b) for b # 0 (\div is floor division for a positive divisor)
FloorDiv(a, b) == IF b > 0 THEN a \div b ELSE (-a) \div (-b)

\* np.ceil(a / b) for b # 0
CeilDiv(a, b) == -FloorDiv(-a, b)

SetMax(S) == CHOOSE m \in S : \A s \in S : s <= m
SetMin(S) == CHOOSE m \in S : \A s \in S : m <= s

\* the spacing of float32 values around magnitude a (a >= 2^24)
RECURSIVE Quantum(_, _)
Quantum(a, q) == IF a \div q < Pow2(Float32Bits) THEN q ELSE Quantum(a, 2 * q)

\* round-to-nearest, ties-to-even of a magnitude to a multiple of q
RoundHalfEven(a, q) ==
    LET m == a \div q
        r == a % q
    IN  IF 2 * r < q THEN m * q
        ELSE IF 2 * r > q THEN (m + 1) * q
        ELSE IF m % 2 = 0 THEN m * q ELSE (m + 1) * q

\* a float64 value stored into a float32 array
ToFloat32(v) ==
    IF IsNaN(v) THEN NaN
    ELSE IF Abs(v) <= Pow2(Float32Bits) THEN v
    ELSE LET a == Abs(v)
             f == RoundHalfEven(a, Quantum(a, 1))
         IN  IF v < 0 THEN -f ELSE f

\* IEEE subtraction and comparison on raster values
FSub(a, b) == IF IsNaN(a) \/ IsNaN(b) THEN NaN ELSE a - b
FLt(a, b) == ~IsNaN(a) /\ ~IsNaN(b) /\ a < b

----------------------------------------------------------------------------
(* Grid Definer: processing.py 60-67 and 123-130 *)

\* np.floor(min / resolution) * resolution
Snap(minv, res) == FloorDiv(minv, res) * res

\* len(np.arange(start, stop, step)), step # 0
ArangeLen(start, stop, step) ==
    LET n == CeilDiv(stop - start, step) IN IF n < 0 THEN 0 ELSE n

\* np.arange(start, stop, step)
Arange(start, stop, step) ==
    [i \in 1..ArangeLen(start, stop, step) |-> start + (i - 1) * step]

Range(s) == {s[i] : i \in DOMAIN s}

\* the grid of a non-empty point sequence at a non-zero resolution
GridOf(pts, res) ==
    LET min_x == SetMin({p.x : p \in Range(pts)})
        min_y == SetMin({p.y : p \in Range(pts)})
        max_x == SetMax({p.x : p \in Range(pts)})
        max_y == SetMax({p.y : p \in Range(pts)})
        gx == Snap(min_x, res)
        gy == Snap(min_y, res)
        xs == Arange(gx, max_x, res)
        ys == Arange(gy, max_y, res)
    IN  [grid_x_min |-> gx, grid_y_min |-> gy, x_coords |-> xs, y_coords |-> ys,
         cols |-> Len(xs), rows |-> Len(ys)]

NoGrid == [grid_x_min |-> 0, grid_y_min |-> 0, x_coords |-> <<>>, y_coords |-> <<>>,
           cols |-> 0, rows |-> 0]

\* the cells of a rows x cols raster, (row, col)
Cells(g) == (0..(g.rows - 1)) \X (0..(g.cols - 1))

\* np.floor((x - grid_x_min) / resolution).astype(int)
ColIndex(g, res, x) == FloorDiv(x - g.grid_x_min, res)

\* (rows - 1) - np.floor((y - grid_y_min) / resolution).astype(int)
RowIndex(g, res, y) == (g.rows - 1) - FloorDiv(y - g.grid_y_min, res)

CellOf(g, res, p) == <<RowIndex(g, res, p.y), ColIndex(g, res, p.x)>>

\* 0 <= r < rows and 0 <= c < cols
InBounds(g, cell) ==
    /\ 0 <= cell[1] /\ cell[1] < g.rows
    /\ 0 <= cell[2] /\ cell[2] < g.cols

----------------------------------------------------------------------------
(* scipy.interpolate.griddata as the two functions call it *)

Dist2(p, qx, qy) == (p.x - qx) * (p.x - qx) + (p.y - qy) * (p.y - qy)

\* method='nearest': the values of the data points nearest to (qx, qy); the
\* k-d tree's choice among equidistant points is left open
NearestVals(gp, qx, qy) ==
    {gp[i].z : i \in {k \in DOMAIN gp :
                        \A j \in DOMAIN gp : Dist2(gp[k], qx, qy) <= Dist2(gp[j], qx, qy)}}

\* twice the signed area of triangle a b c
Orient(ax, ay, bx, by, cx, cy) == (bx - ax) * (cy - ay) - (by - ay) * (cx - ax)

Sign(v) == IF v > 0 THEN 1 ELSE IF v < 0 THEN -1 ELSE 0

\* > 0 iff d lies strictly inside the circumcircle of a b c
InCircle(a, b, c, d) ==
    LET adx == a.x - d.x  ady == a.y - d.y
        bdx == b.x - d.x  bdy == b.y - d.y
        cdx == c.x - d.x  cdy == c.y - d.y
        ad == adx * adx + ady * ady
        bd == bdx * bdx + bdy * bdy
        cd == cdx * cdx + cdy * cdy
        det == adx * (bdy * cd - bd * cdy)
               - ady * (bdx * cd - bd * cdx)
               + ad * (bdx * cdy - bdy * cdx)
    IN  det * Sign(Orient(a.x, a.y, b.x, b.y, c.x, c.y))

\* the triangles a Delaunay triangulation of the data points may hold:
\* non-degenerate, no data point strictly inside the circumcircle
Triangles(gp) ==
    {t \in (DOMAIN gp) \X (DOMAIN gp) \X (DOMAIN gp) :
        /\ t[1] < t[2] /\ t[2] < t[3]
        /\ Orient(gp[t[1]].x, gp[t[1]].y, gp[t[2]].x, gp[t[2]].y,
                  gp[t[3]].x, gp[t[3]].y) # 0
        /\ \A l \in DOMAIN gp : InCircle(gp[t[1]], gp[t[2]], gp[t[3]], gp[l]) <= 0}

\* Qhull cannot triangulate: fewer than three points, or all collinear
Degenerate(gp) == Triangles(gp) = {}

\* an exact quotient num / den, den > 0; not-a-number as a quotient
Frac(n, d) == [num |-> n, den |-> d]
NaNFrac == Frac(NaN, 1)

\* barycentric interpolation in triangle t at (qx, qy); NaN outside t
InTriangle(gp, t, qx, qy) ==
    LET a == gp[t[1]]  b == gp[t[2]]  c == gp[t[3]]
        d == Orient(a.x, a.y, b.x, b.y, c.x, c.y)
        s == Sign(d)
        wa == s * Orient(qx, qy, b.x, b.y, c.x, c.y)
        wb == s * Orient(a.x, a.y, qx, qy, c.x, c.y)
        wc == s * Orient(a.x, a.y, b.x, b.y, qx, qy)
    IN  IF wa >= 0 /\ wb >= 0 /\ wc >= 0
        THEN Frac(wa * a.z + wb * b.z + wc * c.z, s * d)
        ELSE NaNFrac

\* method='linear': the interpolated value at (qx, qy), NaN outside the convex hull
LinearVals(gp, qx, qy) ==
    LET inside == {t \in Triangles(gp) : InTriangle(gp, t, qx, qy) # NaNFrac}
    IN  IF inside = {} THEN {NaNFrac}
        ELSE {InTriangle(gp, t, qx, qy) : t \in inside}

\* the rasters a cell-wise choice allows: ch[cell] is the set of values
\* the interpolation may give the cell
Rasters(g, ch) ==
    {f \in [Cells(g) -> UNION {ch[cell] : cell \in Cells(g)}] :
        \A cell \in Cells(g) : f[cell] \in ch[cell]}

\* griddata(..., (grid_x, grid_y), method='linear'): row i of the meshgrid is
\* y_coords[i], column j is x_coords[j]
LinearGrid(gp, g) ==
    Rasters(g, [cell \in Cells(g) |->
                   LinearVals(gp, g.x_coords[cell[2] + 1], g.y_coords[cell[1] + 1])])

\* griddata(..., (grid_x, grid_y), method='nearest', fill_value=np.nan)
NearestGrid(gp, g) ==
    Rasters(g, [cell \in Cells(g) |->
                   NearestVals(gp, g.x_coords[cell[2] + 1], g.y_coords[cell[1] + 1])])

\* np.flipud
FlipUD(g, a) == [cell \in Cells(g) |-> a[<<(g.rows - 1) - cell[1], cell[2]>>]]

----------------------------------------------------------------------------
(* Inputs *)

Point(x, y, z, c) == [x |-> x, y |-> y, z |-> z, classification |-> c]

SeqsUpTo(S, n) == UNION {[1..k -> S] : k \in 0..n}

\* geometry family: flat clouds over a 3 x 3 lattice of positions
GeomPoints == {Point(x, y, 0, c) : x \in 0..2, y \in 0..2, c \in {1, GroundClass}}

\* surface family: three ground points on the corners of a square...
CornerPoints(Zs) == {Point(x, y, z, GroundClass) : x \in {0, 2}, y \in {0, 2}, z \in Zs}
\* ... under vegetation returns, one of them at the no-data value
CanopyPoints == {Point(xy, xy, z, 1) : xy \in {0, 1}, z \in {NoData, 5, 7}}

\* an elevation float32 does not hold: 2^24 + 3
BigZ == Pow2(Float32Bits) + 3

Resolutions == {1, 2}
BadResolutions == {-2, 0}

Input(pts, res, thr) == [las |-> pts, resolution |-> res, height_threshold |-> thr]

----------------------------------------------------------------------------
(* State shared by the two functions *)

Empty == <<>>

\* the Streamlit session before the user has done anything
AppIdle == [las_file_path |-> "", analysis_type |-> "Canopy Height Model",
            resolution_chm |-> 1, resolution_cc |-> 10, height_threshold |-> 2,
            runs |-> 0, calls |-> <<>>, temp_dir |-> FALSE, shown |-> "info",
            download |-> FALSE]

IsGround(p) == p.classification = GroundClass
IsNonGround(p) == p.classification # GroundClass

Start(in, at) ==
    /\ pc = at
    /\ las = in.las
    /\ resolution = in.resolution
    /\ height_threshold = in.height_threshold
    /\ ground_points = Empty /\ non_ground_points = Empty
    /\ grid = NoGrid
    /\ dtm = Empty /\ dsm = Empty /\ chm = Empty
    /\ normalized_z = Empty
    /\ total_returns = Empty /\ above_threshold_returns = Empty /\ canopy_cover = Empty
    /\ transform = "none" /\ raster = "none" /\ err = "none"
    /\ app = AppIdle

\* raise: the function ends with exception e
Raise(e) == pc' = "failed" /\ err' = e

inputVars == <<las, resolution, height_threshold, app>>
coverVars == <<normalized_z, total_returns, above_threshold_returns, canopy_cover>>
chmVars == <<dtm, dsm, chm>>

----------------------------------------------------------------------------
(* create_canopy_height_model, processing.py 44-100 *)

\* 49-56: read, split by classification, refuse a cloud without ground points
ReadLasCHM ==
    /\ pc = "chm_read"
    /\ LET g == SelectSeq(las, IsGround)
           n == SelectSeq(las, IsNonGround)
       IN  /\ ground_points' = g
           /\ non_ground_points' = n
           /\ IF Len(g) = 0
              THEN Raise("ValueError: No ground points found")
              ELSE pc' = "chm_grid" /\ err' = err
    /\ UNCHANGED <<inputVars, grid, chmVars, coverVars, transform, raster>>

\* 60-67: the grid; np.arange refuses a zero step
DefineGridCHM ==
    /\ pc = "chm_grid"
    /\ IF resolution = 0
       THEN Raise("arange: zero step") /\ grid' = grid
       ELSE grid' = GridOf(las, resolution) /\ pc' = "chm_dtm_linear" /\ err' = err
    /\ UNCHANGED <<inputVars, ground_points, non_ground_points, chmVars, coverVars,
                   transform, raster>>

\* 70-72: dtm = griddata(..., method='linear')
DTMLinear ==
    /\ pc = "chm_dtm_linear"
    /\ IF Degenerate(ground_points)
       THEN Raise("QhullError") /\ dtm' = dtm
       ELSE /\ \E d \in LinearGrid(ground_points, grid) : dtm' = d
            /\ pc' = "chm_dtm_nearest" /\ err' = err
    /\ UNCHANGED <<inputVars, ground_points, non_ground_points, grid, dsm, chm, coverVars,
                   transform, raster>>

\* 73-74: dtm = griddata(..., method='nearest'); dtm = np.flipud(dtm)
DTMNearest ==
    /\ pc = "chm_dtm_nearest"
    /\ \E d \in NearestGrid(ground_points, grid) : dtm' = FlipUD(grid, d)
    /\ pc' = "chm_dsm"
    /\ UNCHANGED <<inputVars, ground_points, non_ground_points, grid, dsm, chm, coverVars,
                   transform, raster, err>>

\* the points of pts that fall into cell
PointsIn(pts, g, res, cell) == {i \in DOMAIN pts : CellOf(g, res, pts[i]) = cell}

\* 77-85: per-cell maximum z of the non-ground points, stored as float32
BinMax(ngp, g, res) ==
    [cell \in Cells(g) |->
        IF PointsIn(ngp, g, res, cell) # {}
        THEN ToFloat32(SetMax({ngp[i].z : i \in PointsIn(ngp, g, res, cell)}))
        ELSE NoData]

\* 86: dsm[dsm == -9999.0] = dtm[dsm == -9999.0]
BackFill(g, s, t) ==
    [cell \in Cells(g) |-> IF s[cell] = NoData THEN ToFloat32(t[cell]) ELSE s[cell]]

BuildDSM ==
    /\ pc = "chm_dsm"
    /\ dsm' = BackFill(grid, BinMax(non_ground_points, grid, resolution), dtm)
    /\ pc' = "chm_combine"
    /\ UNCHANGED <<inputVars, ground_points, non_ground_points, grid, dtm, chm, coverVars,
                   transform, raster, err>>

\* the combiner without line 91: a not-a-number DTM cell is not overridden
CombineCellNoOverride(s, t) ==
    LET d == FSub(s, t) IN IF FLt(d, 0) THEN 0 ELSE d

\* 89-91 for one cell: chm = dsm - dtm; chm[chm < 0] = 0; chm[np.isnan(dtm)] = -9999.0
CombineCell(s, t) ==
    LET d == FSub(s, t)
        clamped == IF FLt(d, 0) THEN 0 ELSE d
    IN  IF IsNaN(t) THEN NoData ELSE clamped

Combine ==
    /\ pc = "chm_combine"
    /\ chm' = [cell \in DOMAIN dsm |-> CombineCell(dsm[cell], dtm[cell])]
    /\ pc' = "chm_write"
    /\ UNCHANGED <<inputVars, ground_points, non_ground_points, grid, dtm, dsm, coverVars,
                   transform, raster, err>>

\* from_origin(grid_x_min, y_coords.max(), resolution, resolution)
FromOrigin(g, res) ==
    [west |-> g.grid_x_min, north |-> SetMax(Range(g.y_coords)), xsize |-> res, ysize |-> res]

\* 94-100 and 150-156: y_coords.max() of an empty array raises; GDAL refuses a
\* raster without columns; otherwise band.astype(float32) is written
WriteRaster(band) ==
    IF grid.rows = 0
    THEN Raise("ValueError: zero-size array") /\ UNCHANGED <<transform, raster>>
    ELSE IF grid.cols = 0
    THEN Raise("RasterioIOError") /\ UNCHANGED <<transform, raster>>
    ELSE /\ transform' = FromOrigin(grid, resolution)
         /\ raster' = band
         /\ pc' = "done" /\ err' = err

WriteCHM ==
    /\ pc = "chm_write"
    /\ WriteRaster([cell \in DOMAIN chm |-> ToFloat32(chm[cell])])
    /\ UNCHANGED <<inputVars, ground_points, non_ground_points, grid, chmVars, coverVars>>

\* the clouds and resolutions create_canopy_height_model is run on
Init ==
    \/ \E pts \in SeqsUpTo(GeomPoints, MaxGeomPts), res \in Resolutions \cup BadResolutions :
          Start(Input(pts, res, 0), "chm_read")
    \/ \E g \in [1..3 -> CornerPoints({0, 4})], n \in SeqsUpTo(CanopyPoints, MaxNonGround),
          res \in Resolutions :
          Start(Input(g \o n, res, 0), "chm_read")
    \/ \E g \in [1..3 -> CornerPoints({0, BigZ})], res \in Resolutions :
          Start(Input(g, res, 0), "chm_read")


Next ==
    \/ ReadLasCHM
    \/ DefineGridCHM
    \/ DTMLinear
    \/ DTMNearest
    \/ BuildDSM
    \/ Combine
    \/ WriteCHM

Spec == Init /\ [][Next]_vars

----------------------------------------------------------------------------
(* create_canopy_cover, processing.py 102-156 *)

\* tally family: returns at, and above, the threshold over uneven ground
TallyPoints ==
    {Point(xy[1], xy[2], zc[1], zc[2]) :
        xy \in {<<0, 0>>, <<1, 1>>, <<2, 1>>},
        zc \in {<<0, GroundClass>>, <<3, GroundClass>>, <<2, 1>>, <<5, 1>>}}

\* height_threshold: the default of the function and of the form
Thresholds == {2}

\* 107-112: read, refuse a cloud without ground points
ReadLasCover ==
    /\ pc = "cc_read"
    /\ LET g == SelectSeq(las, IsGround)
       IN  /\ ground_points' = g
           /\ IF Len(g) = 0
              THEN Raise("ValueError: No ground points found")
              ELSE pc' = "cc_normalize" /\ err' = err
    /\ UNCHANGED <<inputVars, non_ground_points, grid, chmVars, coverVars, transform, raster>>

\* 115-120: griddata((ground.x, ground.y), ground.z, (las.x, las.y), method='nearest')
GroundEstimates(gp, pts) ==
    LET ch == [i \in DOMAIN pts |-> NearestVals(gp, pts[i].x, pts[i].y)]
    IN  {f \in [DOMAIN pts -> UNION {ch[i] : i \in DOMAIN pts}] :
            \A i \in DOMAIN pts : f[i] \in ch[i]}

\* 121: normalized_z = las.z - dtm_interpolator
Normalize ==
    /\ pc = "cc_normalize"
    /\ \E est \in GroundEstimates(ground_points, las) :
          normalized_z' = [i \in DOMAIN las |-> las[i].z - est[i]]
    /\ pc' = "cc_grid"
    /\ UNCHANGED <<inputVars, ground_points, non_ground_points, grid, chmVars,
                   total_returns, above_threshold_returns, canopy_cover,
                   transform, raster, err>>

\* 123-130
DefineGridCover ==
    /\ pc = "cc_grid"
    /\ IF resolution = 0
       THEN Raise("arange: zero step") /\ grid' = grid
       ELSE grid' = GridOf(las, resolution) /\ pc' = "cc_tally" /\ err' = err
    /\ UNCHANGED <<inputVars, ground_points, non_ground_points, chmVars, coverVars,
                   transform, raster>>

\* the mask with >= for >: returns at the threshold count as canopy
AboveMaskInclusive(nz, thr) == nz >= thr

\* 140: above_mask = normalized_z > height_threshold
AboveMask(nz, thr) == nz > thr

\* 133-139: np.add.at(total_returns, valid cells, 1)
TotalReturns(pts, g, res) ==
    [cell \in Cells(g) |-> Cardinality(PointsIn(pts, g, res, cell))]

\* 140-142: np.add.at(above_threshold_returns, valid cells above the threshold, 1)
AboveReturns(pts, nz, thr, g, res) ==
    [cell \in Cells(g) |->
        Cardinality({i \in PointsIn(pts, g, res, cell) : AboveMask(nz[i], thr)})]

\* the cover raster started from zeros instead of np.full(..., -9999.0)
CoverOfZeroFilled(g, total, above) ==
    [cell \in Cells(g) |->
        IF total[cell] > 0 THEN Frac(above[cell] * 100, total[cell]) ELSE Frac(0, 1)]

\* 145-147: (above / total) * 100 where total > 0, -9999.0 elsewhere
CoverOf(g, total, above) ==
    [cell \in Cells(g) |->
        IF total[cell] > 0 THEN Frac(above[cell] * 100, total[cell]) ELSE Frac(NoData, 1)]

Tally ==
    /\ pc = "cc_tally"
    /\ LET total == TotalReturns(las, grid, resolution)
           above == AboveReturns(las, normalized_z, height_threshold, grid, resolution)
       IN  /\ total_returns' = total
           /\ above_threshold_returns' = above
           /\ canopy_cover' = CoverOf(grid, total, above)
    /\ pc' = "cc_write"
    /\ UNCHANGED <<inputVars, ground_points, non_ground_points, grid, chmVars,
                   normalized_z, transform, raster, err>>

\* 150-156
WriteCover ==
    /\ pc = "cc_write"
    /\ WriteRaster(canopy_cover)
    /\ UNCHANGED <<inputVars, ground_points, non_ground_points, grid, chmVars, coverVars>>

\* the clouds, resolutions and thresholds create_canopy_cover is run on
InitCover ==
    \/ \E pts \in SeqsUpTo(GeomPoints, MaxGeomPts), res \in Resolutions \cup BadResolutions,
          thr \in Thresholds :
          Start(Input(pts, res, thr), "cc_read")
    \/ \E pts \in SeqsUpTo(TallyPoints, MaxTallyPts), res \in Resolutions, thr \in Thresholds :
          Start(Input(pts, res, thr), "cc_read")

NextCover ==
    \/ ReadLasCover
    \/ Normalize
    \/ DefineGridCover
    \/ Tally
    \/ WriteCover

SpecCover == InitCover /\ [][NextCover]_vars

----------------------------------------------------------------------------
(* The Height-Model Combiner on its own: processing.py 89-91 applied to any  *)
(* pair of rasters of one shape, not-a-number cells included                 *)

\* widest raster handed to the combiner
MaxCols == 2

\* float32 cells of a DSM, float64 cells of a DTM
DSMValues == {NaN, NoData, 0, 5}
DTMValues == {NaN, NoData, 0, 3, 7}

UnitGrid(cols) == [grid_x_min |-> 0, grid_y_min |-> 0,
                   x_coords |-> [i \in 1..cols |-> i - 1], y_coords |-> <<0>>,
                   cols |-> cols, rows |-> 1]

InitCombiner ==
    \E cols \in 1..MaxCols :
       \E s \in [Cells(UnitGrid(cols)) -> DSMValues], t \in [Cells(UnitGrid(cols)) -> DTMValues] :
          /\ pc = "chm_combine"
          /\ las = Empty /\ resolution = 1 /\ height_threshold = 0
          /\ ground_points = Empty /\ non_ground_points = Empty
          /\ grid = UnitGrid(cols)
          /\ dtm = t /\ dsm = s /\ chm = Empty
          /\ normalized_z = Empty
          /\ total_returns = Empty /\ above_threshold_returns = Empty
          /\ canopy_cover = Empty
          /\ transform = "none" /\ raster = "none" /\ err = "none"
          /\ app = AppIdle

NextCombiner ==
    \/ Combine
    \/ WriteCHM

SpecCombiner == InitCombiner /\ [][NextCombiner]_vars

----------------------------------------------------------------------------
(* app.py: the Streamlit script.  Every interaction reruns the script from  *)
(* the top; an action is one rerun.                                         *)

\* paths the user may enter, and the ones os.path.exists finds
Paths == {"", "missing.las", "plot.las"}
Exists(path) == path = "plot.las"

AnalysisTypes == {"Canopy Height Model", "Canopy Cover"}

\* the names bound at module level when line 152 runs (imports, defs and
\* assignments of lines 1-147; 111-117 and 121-125 are comments)
ModuleNames ==
    {"st", "os", "tempfile", "uuid", "create_canopy_height_model", "create_canopy_cover",
     "classify_ground", "tk", "filedialog", "Image", "open_file_dialog",
     "update_path_from_dialog", "icon", "col1", "col2", "las_file_path", "analysis_type",
     "resolution_chm", "resolution_cc", "height_threshold"}

\* 107-109, 184-187: what the script shows for a path when Run is not pressed
Shown(path) ==
    IF path # "" /\ Exists(path) THEN "form"
    ELSE IF path # "" THEN "File not found"
    ELSE "info"

restVars == <<pc, las, resolution, height_threshold, ground_points, non_ground_points,
              grid, dtm, dsm, chm, normalized_z, total_returns, above_threshold_returns,
              canopy_cover, transform, raster, err>>

\* 82-85: the text input bound to session_state.las_file_path
EnterPath ==
    /\ \E p \in Paths :
          app' = [app EXCEPT !.las_file_path = p, !.calls = <<>>, !.download = FALSE,
                             !.shown = Shown(p)]
    /\ UNCHANGED restVars

\* 28-32, 101: Browse...; a cancelled dialog returns "" and changes nothing
update_path_from_dialog ==
    /\ \E selected_path \in Paths :
          LET p == IF selected_path # "" THEN selected_path ELSE app.las_file_path
          IN  app' = [app EXCEPT !.las_file_path = p, !.calls = <<>>, !.download = FALSE,
                                 !.shown = Shown(p)]
    /\ UNCHANGED restVars

\* 127-144: the analysis options, offered once the file is found
SetOptions ==
    /\ Shown(app.las_file_path) = "form"
    /\ \E a \in AnalysisTypes, r \in {1, 2}, t \in {1, 2} :
          app' = [app EXCEPT !.analysis_type = a,
                             !.resolution_chm = IF a = "Canopy Height Model" THEN r ELSE @,
                             !.resolution_cc = IF a = "Canopy Cover" THEN r ELSE @,
                             !.height_threshold = IF a = "Canopy Cover" THEN t ELSE @,
                             !.calls = <<>>, !.download = FALSE, !.shown = "form"]
    /\ UNCHANGED restVars

AnalysisFunction(a) ==
    IF a = "Canopy Height Model" THEN "create_canopy_height_model" ELSE "create_canopy_cover"

\* 147-182: the Run button.  Line 152 reads is_classified, which no line of
\* the script binds: NameError, inside the try and inside the with, so the
\* temporary directory is removed and the except clause reports the error.
\* Were the name bound (to False), classify_ground would run (count > 0 or
\* RuntimeError), then the analysis, then the download button.
RunHandler ==
    /\ Shown(app.las_file_path) = "form"
    /\ app.runs < MaxRuns
    /\ IF "is_classified" \notin ModuleNames
       THEN app' = [app EXCEPT !.runs = @ + 1, !.calls = <<>>, !.temp_dir = FALSE,
                               !.download = FALSE,
                               !.shown = "An error occurred during processing: NameError"]
       ELSE \E count \in 0..1, analysis_ok \in BOOLEAN :
               app' = [app EXCEPT
                  !.runs = @ + 1,
                  !.temp_dir = count > 0 /\ analysis_ok,
                  !.calls = IF count > 0
                            THEN <<"classify_ground", AnalysisFunction(app.analysis_type)>>
                            ELSE <<"classify_ground">>,
                  !.download = count > 0 /\ analysis_ok,
                  !.shown = IF count > 0 /\ analysis_ok THEN "Analysis Complete!"
                            ELSE "An error occurred during processing"]
    /\ UNCHANGED restVars

InitApp == Start(Input(Empty, 1, 2), "idle")

NextApp ==
    \/ EnterPath
    \/ update_path_from_dialog
    \/ SetOptions
    \/ RunHandler

SpecApp == InitApp /\ [][NextApp]_vars

----------------------------------------------------------------------------
(* Properties *)

GridStagesCHM == {"chm_dtm_linear", "chm_dtm_nearest", "chm_dsm", "chm_combine",
                  "chm_write", "done"}
DTMStages == {"chm_dsm", "chm_combine", "chm_write", "done"}
DSMStages == {"chm_combine", "chm_write", "done"}
CHMStages == {"chm_write", "done"}
TallyStages == {"cc_write", "done"}

\* C1: for a non-empty cloud and a resolution > 0 the grid has at least one
\* row and one column and every input point's cell index lies inside it.
C1_GridCoversEveryPoint ==
    (pc \in GridStagesCHM /\ resolution > 0 /\ Len(las) > 0) =>
        /\ grid.rows >= 1
        /\ grid.cols >= 1
        /\ \A i \in DOMAIN las : InBounds(grid, CellOf(grid, resolution, las[i]))

\* what the function reports as a precondition error
PreconditionErrors == {"ValueError: No ground points found"}

BadInput ==
    \/ resolution <= 0
    \/ Len(las) = 0
    \/ \A i \in DOMAIN las : ~IsGround(las[i])

\* C8: on an empty cloud, a cloud without ground points or a resolution <= 0
\* the function raises a precondition error before the grid is defined and
\* before anything is interpolated or written.
C8_PreconditionsRefusedFirst ==
    BadInput =>
        /\ pc \in {"chm_read", "chm_grid", "failed"}
        /\ pc = "failed" => err \in PreconditionErrors
        /\ grid = NoGrid /\ dtm = Empty /\ raster = "none"

\* C4: after the DSM stage, back-fill included, every cell that received a
\* non-ground point holds the maximum z of the non-ground points in it.
C4_DSMHoldsCellMaximum ==
    pc \in DSMStages =>
        \A cell \in Cells(grid) :
            LET inCell == {i \in DOMAIN non_ground_points :
                             CellOf(grid, resolution, non_ground_points[i]) = cell}
            IN  inCell # {} =>
                   dsm[cell] = SetMax({non_ground_points[i].z : i \in inCell})

\* C5: after back-fill every cell without non-ground points has DSM = DTM,
\* is not left at the no-data value where the DTM is defined, and gets CHM = 0.
C5_BackFillEqualsDTM ==
    pc \in DSMStages =>
        \A cell \in Cells(grid) :
            (\A i \in DOMAIN non_ground_points :
                CellOf(grid, resolution, non_ground_points[i]) # cell) =>
                /\ dsm[cell] = dtm[cell]
                /\ ~IsNaN(dtm[cell]) => dsm[cell] # NoData
                /\ (pc \in CHMStages /\ ~IsNaN(dtm[cell])) => chm[cell] = 0

\* C6: every cell the linear interpolation resolves holds the linear value
\* in the final DTM (nearest-neighbour only in the gaps), and no cell is NaN.
C6_LinearValueKept ==
    pc \in DTMStages =>
        \A cell \in Cells(grid) :
            /\ ~IsNaN(dtm[cell])
            /\ \A v \in LinearVals(ground_points, grid.x_coords[cell[2] + 1],
                                   grid.y_coords[(grid.rows - 1) - cell[1] + 1]) :
                  v # NaNFrac => dtm[cell] * v.den = v.num

\* C9: the pixel the transform gives to cell (r, c) contains every point
\* binned into (r, c): west + c*res <= x < west + (c+1)*res and
\* north - (r+1)*res <= y <= north - r*res.
C9_PixelHoldsItsPoints ==
    (pc = "done" /\ resolution > 0) =>
        \A i \in DOMAIN las :
            LET cell == CellOf(grid, resolution, las[i])
                r == cell[1]
                c == cell[2]
            IN  InBounds(grid, cell) =>
                  /\ transform.west + c * transform.xsize <= las[i].x
                  /\ las[i].x < transform.west + (c + 1) * transform.xsize
                  /\ transform.north - (r + 1) * transform.ysize <= las[i].y
                  /\ las[i].y <= transform.north - r * transform.ysize

\* C3: the combined raster has the shape of its inputs; a cell whose DTM is
\* not-a-number holds the no-data value whatever the DSM; any other cell
\* with a defined DSM holds max(DSM - DTM, 0), which is >= 0.
C3_CombinerCells ==
    pc \in CHMStages =>
        /\ DOMAIN chm = DOMAIN dtm
        /\ DOMAIN chm = DOMAIN dsm
        /\ \A cell \in DOMAIN chm :
              /\ IsNaN(dtm[cell]) => chm[cell] = NoData
              /\ (~IsNaN(dtm[cell]) /\ ~IsNaN(dsm[cell])) =>
                    /\ chm[cell] = SetMax({dsm[cell] - dtm[cell], 0})
                    /\ chm[cell] >= 0

\* a not-a-number DTM cell under a defined DSM, beside a cell clamped to 0
C3_Witness ==
    /\ pc \in CHMStages
    /\ \E c1 \in DOMAIN chm, c2 \in DOMAIN chm :
          /\ IsNaN(dtm[c1]) /\ ~IsNaN(dsm[c1]) /\ dsm[c1] # NoData /\ chm[c1] = NoData
          /\ ~IsNaN(dtm[c2]) /\ ~IsNaN(dsm[c2]) /\ dsm[c2] < dtm[c2] /\ chm[c2] = 0

\* C2: in every cell 0 <= above <= total; a cell with returns has a cover
\* in [0, 100]; a cell without returns has the no-data value, never 0.
C2_CoverBounds ==
    pc \in TallyStages =>
        \A cell \in Cells(grid) :
            /\ 0 <= above_threshold_returns[cell]
            /\ above_threshold_returns[cell] <= total_returns[cell]
            /\ total_returns[cell] > 0 =>
                  /\ canopy_cover[cell].den > 0
                  /\ 0 <= canopy_cover[cell].num
                  /\ canopy_cover[cell].num <= 100 * canopy_cover[cell].den
            /\ total_returns[cell] = 0 =>
                  canopy_cover[cell].num = NoData * canopy_cover[cell].den

\* a raster with an empty cell beside a cell that is partly canopy
C2_Witness ==
    /\ pc = "done"
    /\ \E c1 \in Cells(grid), c2 \in Cells(grid) :
          /\ total_returns[c1] = 0 /\ raster[c1] = Frac(NoData, 1)
          /\ total_returns[c2] >= 2
          /\ 0 < above_threshold_returns[c2]
          /\ above_threshold_returns[c2] < total_returns[c2]

\* the points among the first n of las that fall into cell, and among them
\* those above the threshold: counted one point at a time
RECURSIVE CountInCell(_, _, _)
CountInCell(n, cell, aboveOnly) ==
    IF n = 0 THEN 0
    ELSE CountInCell(n - 1, cell, aboveOnly)
         + (IF /\ CellOf(grid, resolution, las[n]) = cell
               /\ (aboveOnly => normalized_z[n] > height_threshold)
            THEN 1 ELSE 0)

RECURSIVE SumOver(_, _)
SumOver(f, S) ==
    IF S = {} THEN 0
    ELSE LET x == CHOOSE x \in S : TRUE IN f[x] + SumOver(f, S \ {x})

\* C7: total_returns of a cell is the number of points whose index is the
\* cell, above_threshold_returns the number of those with normalized_z
\* strictly above the threshold; every in-bounds point is counted once; the
\* cover is 100 * above / total.
C7_ReturnTally ==
    pc \in TallyStages =>
        /\ \A cell \in Cells(grid) :
              /\ total_returns[cell] = CountInCell(Len(las), cell, FALSE)
              /\ above_threshold_returns[cell] = CountInCell(Len(las), cell, TRUE)
              /\ total_returns[cell] > 0 =>
                    canopy_cover[cell].num * total_returns[cell]
                       = 100 * above_threshold_returns[cell] * canopy_cover[cell].den
        /\ SumOver(total_returns, Cells(grid))
              = Cardinality({i \in DOMAIN las :
                               InBounds(grid, CellOf(grid, resolution, las[i]))})

\* a cell with three returns: one above the threshold, one exactly at it
C7_Witness ==
    /\ pc = "done"
    /\ \E cell \in Cells(grid) :
          /\ total_returns[cell] = 3
          /\ above_threshold_returns[cell] = 1
          /\ \E i \in DOMAIN las :
                /\ CellOf(grid, resolution, las[i]) = cell
                /\ normalized_z[i] = height_threshold
          /\ raster[cell].num * 3 = 100 * raster[cell].den

IsClassifyCall(name) == name = "classify_ground"

\* C10: a press of Run on an existing file calls classify_ground exactly
\* once, and it ends either with the analysis complete and the download
\* offered, or with the error shown and the temporary directory removed.
C10_RunClassifiesOnce ==
    (app.runs > 0 /\ app.shown \notin {"form", "info", "File not found"}) =>
        /\ Len(SelectSeq(app.calls, IsClassifyCall)) = 1
        /\ \/ app.shown = "Analysis Complete!" /\ app.download
           \/ ~app.temp_dir /\ ~app.download

============================================================================
